---- MODULE Spec2Model ----
(***************************************************************************)
(* Model of the dLight Home Assistant integration (Irishsmurf/dlight-hass). *)
(*                                                                         *)
(*   SpecFlow   the config flow: validate_input and                        *)
(*              DLightConfigFlow.async_step_user, in both revisions of     *)
(*              config_flow.py.                                            *)
(*   SpecSetup  the entry point: async_setup_entry / async_unload_entry of *)
(*              custom_components/dlight-hass/__init__.py and the early    *)
(*              return of the light platform's async_setup_entry.          *)
(*                                                                         *)
(* Python values are modelled by strings; the two sentinels below stand    *)
(* for the Python object None and for a key that a dict does not hold.     *)
(***************************************************************************)
EXTENDS Naturals, Sequences, FiniteSets, TLC

VARIABLES
    rev,            \* which config_flow.py is installed: "component" | "legacy"
    importSuccess,  \* _IMPORT_SUCCESS of custom_components/.../config_flow.py
    entries,        \* the config entries of the domain, in creation order
    flowCall,       \* the last async_step_user call: its input and what it did
    flowResult,     \* the FlowResult that call returned
    hassData,       \* hass.data: domain -> (entry_id -> entry.data)
    configEntries,  \* the ConfigEntry objects handed to the entry point
    entryState,     \* Home Assistant's state of each config entry
    setupCall,      \* the last async_setup_entry / async_unload_entry call
    device,         \* the lamp itself: on, brightness (0-100), temperature (K)
    coordData,      \* coordinator.data: what the last successful poll returned
    optimistic,     \* the entity's optimistic on / brightness / color temp
    haState,        \* the state last written by async_write_ha_state
    svcCall,        \* the async_turn_on / async_turn_off call in progress or last made
    poll,           \* the coordinator refresh in flight, if any
    pending,        \* the state set by a command that no later query has confirmed
    callsLeft       \* service calls the environment may still make

flowVars == <<rev, importSuccess, entries, flowCall, flowResult>>
setupVars == <<hassData, configEntries, entryState, setupCall>>
lightVars == <<device, coordData, optimistic, haState, svcCall, poll, pending, callsLeft>>
vars == <<rev, importSuccess, entries, flowCall, flowResult,
          hassData, configEntries, entryState, setupCall,
          device, coordData, optimistic, haState, svcCall, poll, pending, callsLeft>>

None == "<None>"
Absent == "<absent>"

\* Python truthiness of a str-or-None value (a missing key reads as None).
Truthy(v) == v \notin {None, Absent, ""}

\* dict.get(key): None for a missing key.
Get(v) == IF v = Absent THEN None ELSE v

\* dict.get(key, default): the default only for a missing key.
GetDefault(v, default) == IF v = Absent THEN default ELSE v

\* a or b
Or(a, b) == IF Truthy(a) THEN a ELSE b

(***************************************************************************)
(* Bounds and input sets.                                                  *)
(***************************************************************************)
MaxEntries == 3

IpAddresses == {"10.0.0.5"}
DeviceIds == {"", "d1"}
Names == {Absent, "", "Kitchen"}

\* What the form hands to async_step_user: the two required keys, and the
\* optional name.
UserInputs == [ip_address : IpAddresses, device_id : DeviceIds, name : Names]

\* user_input is None
NoUserInput == [ip_address |-> None, device_id |-> None, name |-> None]

STATUS_SUCCESS == "SUCCESS"

\* Values client.query_device_info can return: a SUCCESS answer with each
\* shape of deviceModel, a failure answer, an answer without a status, the
\* empty dict, and values that are no dict.
InfoDicts ==
    [type : {"dict"}, status : {STATUS_SUCCESS},
     deviceModel : {Absent, None, "", "dLight-M"}]
        \cup [type : {"dict"}, status : {"FAILED", Absent}, deviceModel : {"dLight-M"}]
        \cup [type : {"dict"}, status : {Absent}, deviceModel : {Absent}]

InfoOther ==
    [type : {"NoneType", "str", "list"}, status : {Absent}, deviceModel : {Absent}]

\* Exceptions the awaited query can raise.
QueryExceptions ==
    {"asyncio.TimeoutError", "DLightTimeoutError", "DLightConnectionError",
     "DLightResponseError", "DLightError", "RuntimeError"}

NoInfo == [type |-> "NoneType", status |-> Absent, deviceModel |-> Absent]

Responses ==
    [kind : {"return"}, exc : {Absent}, info : InfoDicts \cup InfoOther]
        \cup [kind : {"raise"}, exc : QueryExceptions, info : {NoInfo}]

\* No query was made.
NoResponse == [kind |-> Absent, exc |-> Absent, info |-> NoInfo]

(***************************************************************************)
(* Python semantics used by validate_input.                                *)
(***************************************************************************)
\* bool(info): None, "" and {} are falsy; the str and list values stand for
\* "" and a non-empty list.
InfoTruthy(info) ==
    CASE info.type = "NoneType" -> FALSE
      [] info.type = "str" -> FALSE
      [] info.type = "list" -> TRUE
      [] OTHER -> info.status # Absent \/ info.deviceModel # Absent

\* The classes an exception is an instance of.
ExcBases(exc) ==
    CASE exc \in {"DLightTimeoutError", "DLightConnectionError", "DLightResponseError"}
            -> {exc, "DLightError", "Exception"}
      [] exc = "CannotConnect" -> {exc, "HomeAssistantError", "Exception"}
      [] OTHER -> {exc, "Exception"}

Return(title) == [kind |-> "return", title |-> title, exc |-> Absent, msg |-> Absent]
Raise(exc, msg) == [kind |-> "raise", title |-> Absent, exc |-> exc, msg |-> msg]

\* try/except: the first clause whose class the exception is an instance of
\* re-raises CannotConnect with that clause's message; with no such clause
\* the exception propagates.
RECURSIVE HandleExc(_, _, _)
HandleExc(handlers, raised, i) ==
    IF i > Len(handlers) THEN raised
    ELSE IF handlers[i][1] \in ExcBases(raised.exc)
         THEN Raise("CannotConnect", handlers[i][2])
         ELSE HandleExc(handlers, raised, i + 1)

(***************************************************************************)
(* custom_components/dlight-hass/config_flow.py                            *)
(***************************************************************************)
\* EntryTitle with the model read by info.get("deviceModel", device_id).
EntryTitle_GetDefault(data, info) ==
    Or(Get(data.name), GetDefault(info.deviceModel, data.device_id))

\* Lines 98-99: the title of the entry.
EntryTitle(data, info) ==
    LET model_or_id == Or(Get(info.deviceModel), data.device_id)
    IN  Or(Get(data.name), model_or_id)

\* Lines 82-101: the body of the try statement.
ValidateTry(data, resp) ==
    IF resp.kind = "raise" THEN Raise(resp.exc, "query")
    ELSE IF ~InfoTruthy(resp.info) THEN Raise("CannotConnect", "non_success")
    ELSE IF resp.info.type # "dict" THEN Raise("AttributeError", "get")
    ELSE IF resp.info.status # STATUS_SUCCESS THEN Raise("CannotConnect", "non_success")
    ELSE Return(EntryTitle(data, resp.info))

\* ExceptClauses without the final "except Exception" clause.
ExceptClauses_NoCatchAll ==
    << <<"asyncio.TimeoutError", "timeout">>,
       <<"DLightTimeoutError", "timeout">>,
       <<"DLightConnectionError", "connection_error">>,
       <<"DLightResponseError", "invalid_response">>,
       <<"DLightError", "cannot_validate">> >>

\* Lines 103-123: the except clauses, in order.
ExceptClauses ==
    << <<"asyncio.TimeoutError", "timeout">>,
       <<"DLightTimeoutError", "timeout">>,
       <<"DLightConnectionError", "connection_error">>,
       <<"DLightResponseError", "invalid_response">>,
       <<"DLightError", "cannot_validate">>,
       <<"Exception", "unexpected">> >>

validate_input(importOk, data, resp) ==
    IF ~importOk THEN Raise("CannotConnect", "library_not_loaded")
    ELSE LET r == ValidateTry(data, resp)
         IN  IF r.kind = "raise" THEN HandleExc(ExceptClauses, r, 1) ELSE r

(***************************************************************************)
(* src/config_flow.py, the earlier revision                                *)
(***************************************************************************)
\* Line 74.
LegacyEntryTitle(data, info) ==
    Or(Get(data.name), GetDefault(info.deviceModel, data.device_id))

\* Lines 60-76.
LegacyValidateTry(data, resp) ==
    IF resp.kind = "raise" THEN Raise(resp.exc, "query")
    ELSE IF ~InfoTruthy(resp.info) THEN Raise("CannotConnect", "non_success")
    ELSE IF resp.info.type # "dict" THEN Raise("AttributeError", "get")
    ELSE IF resp.info.status # "SUCCESS" THEN Raise("CannotConnect", "non_success")
    ELSE Return(LegacyEntryTitle(data, resp.info))

\* Lines 78-95.
LegacyExceptClauses ==
    << <<"asyncio.TimeoutError", "timeout">>,
       <<"DLightTimeoutError", "timeout">>,
       <<"DLightConnectionError", "connection_error">>,
       <<"DLightError", "cannot_validate">>,
       <<"Exception", "unexpected">> >>

legacy_validate_input(data, resp) ==
    LET r == LegacyValidateTry(data, resp)
    IN  IF r.kind = "raise" THEN HandleExc(LegacyExceptClauses, r, 1) ELSE r

(***************************************************************************)
(* DLightConfigFlow.async_step_user                                        *)
(***************************************************************************)
NoValidate == [kind |-> Absent, title |-> Absent, exc |-> Absent, msg |-> Absent]

ShowForm(errorsBase) ==
    [type |-> "form", step_id |-> "user", errors |-> errorsBase,
     title |-> Absent, data |-> NoUserInput, reason |-> Absent]

\* CreateEntry that titles the entry by the device id.
CreateEntry_IdTitle(title, data) ==
    [type |-> "create_entry", step_id |-> Absent, errors |-> Absent,
     title |-> data.device_id, data |-> data, reason |-> Absent]

\* Line 153: async_create_entry(title=info["title"], data=user_input).
CreateEntry(title, data) ==
    [type |-> "create_entry", step_id |-> Absent, errors |-> Absent,
     title |-> title, data |-> data, reason |-> Absent]

Abort(reason) ==
    [type |-> "abort", step_id |-> Absent, errors |-> Absent,
     title |-> Absent, data |-> NoUserInput, reason |-> reason]

\* An exception that leaves async_step_user.
Propagate(exc) ==
    [type |-> "raise", step_id |-> Absent, errors |-> Absent,
     title |-> Absent, data |-> NoUserInput, reason |-> exc]

\* Line 142: unique_id = f"dlight_{user_input[CONF_DEVICE_ID]}"
UniqueId(user_input) == "dlight_" \o user_input.device_id

\* UniqueIdConfigured that never finds the entry.
UniqueIdConfigured_Never(ents, unique_id) == FALSE

\* Line 145, _abort_if_unique_id_configured: is there an entry of this
\* unique id?
UniqueIdConfigured(ents, unique_id) ==
    \E i \in 1..Len(ents) : ents[i].unique_id = unique_id

\* {**entry.data, **updates}
MergeData(data, updates) ==
    [ip_address |-> updates.ip_address,
     device_id |-> updates.device_id,
     name |-> IF updates.name = Absent THEN data.name ELSE updates.name]

\* Line 145 with updates=user_input: the configured entry takes the
\* submitted values before the flow aborts.
UpdateConfigured(ents, unique_id, updates) ==
    [i \in 1..Len(ents) |->
        IF ents[i].unique_id = unique_id
        THEN [ents[i] EXCEPT !.data = MergeData(ents[i].data, updates)]
        ELSE ents[i]]

\* Line 153, async_create_entry: the flow's entry joins the registry.
AddEntry(ents, unique_id, title, data) ==
    Append(ents, [unique_id |-> unique_id, title |-> title, data |-> data])

FlowOutcome(result, ents, user_input, unique_id, resp, validated) ==
    [result |-> result, entries |-> ents,
     call |-> [user_input |-> user_input, unique_id |-> unique_id,
               resp |-> resp, validated |-> validated]]

\* custom_components/dlight-hass/config_flow.py, lines 133-172.
async_step_user(importOk, ents, user_input, resp) ==
    IF user_input = NoUserInput
    THEN FlowOutcome(ShowForm(Absent), ents, user_input, Absent, NoResponse, NoValidate)
    ELSE
      LET unique_id == UniqueId(user_input) IN
      IF UniqueIdConfigured(ents, unique_id)
      THEN FlowOutcome(Abort("already_configured"),
                       UpdateConfigured(ents, unique_id, user_input),
                       user_input, unique_id, NoResponse, NoValidate)
      ELSE
        LET info == validate_input(importOk, user_input, resp)
            asked == IF importOk THEN resp ELSE NoResponse
        IN  IF info.kind = "return"
            THEN FlowOutcome(CreateEntry(info.title, user_input),
                             AddEntry(ents, unique_id, info.title, user_input),
                             user_input, unique_id, asked, info)
            ELSE IF "CannotConnect" \in ExcBases(info.exc)
            THEN FlowOutcome(ShowForm("cannot_connect"), ents,
                             user_input, unique_id, asked, info)
            ELSE IF "Exception" \in ExcBases(info.exc)
            THEN FlowOutcome(ShowForm("unknown"), ents,
                             user_input, unique_id, asked, info)
            ELSE FlowOutcome(Propagate(info.exc), ents,
                             user_input, unique_id, asked, info)

\* src/config_flow.py, lines 105-142.
legacy_async_step_user(ents, user_input, resp) ==
    IF user_input = NoUserInput
    THEN FlowOutcome(ShowForm(Absent), ents, user_input, Absent, NoResponse, NoValidate)
    ELSE
      LET unique_id == UniqueId(user_input) IN
      IF UniqueIdConfigured(ents, unique_id)
      THEN FlowOutcome(Abort("already_configured"),
                       UpdateConfigured(ents, unique_id, user_input),
                       user_input, unique_id, NoResponse, NoValidate)
      ELSE
        LET info == legacy_validate_input(user_input, resp)
        IN  IF info.kind = "return"
            THEN FlowOutcome(CreateEntry(info.title, user_input),
                             AddEntry(ents, unique_id, info.title, user_input),
                             user_input, unique_id, resp, info)
            ELSE IF "CannotConnect" \in ExcBases(info.exc)
            THEN FlowOutcome(ShowForm("cannot_connect"), ents,
                             user_input, unique_id, resp, info)
            ELSE IF "Exception" \in ExcBases(info.exc)
            THEN FlowOutcome(ShowForm("unknown"), ents,
                             user_input, unique_id, resp, info)
            ELSE FlowOutcome(Propagate(info.exc), ents,
                             user_input, unique_id, resp, info)

(***************************************************************************)
(* The config flow as a state machine: each step is one call of               *)
(* async_step_user, with the form's input and the device's answer chosen   *)
(* by the environment.                                                     *)
(***************************************************************************)
NoCall ==
    [user_input |-> NoUserInput, unique_id |-> Absent, resp |-> NoResponse,
     validated |-> NoValidate, before |-> << >>, started |-> FALSE]

Called(call, before) ==
    [user_input |-> call.user_input, unique_id |-> call.unique_id,
     resp |-> call.resp, validated |-> call.validated,
     before |-> before, started |-> TRUE]

StepUser ==
    /\ rev = "component"
    /\ Len(entries) < MaxEntries
    /\ \E user_input \in UserInputs \cup {NoUserInput}, resp \in Responses :
         LET out == async_step_user(importSuccess, entries, user_input, resp)
         IN  /\ entries' = out.entries
             /\ flowResult' = out.result
             /\ flowCall' = Called(out.call, entries)
    /\ UNCHANGED <<rev, importSuccess, setupVars, lightVars>>

LegacyStepUser ==
    /\ rev = "legacy"
    /\ Len(entries) < MaxEntries
    /\ \E user_input \in UserInputs \cup {NoUserInput}, resp \in Responses :
         LET out == legacy_async_step_user(entries, user_input, resp)
         IN  /\ entries' = out.entries
             /\ flowResult' = out.result
             /\ flowCall' = Called(out.call, entries)
    /\ UNCHANGED <<rev, importSuccess, setupVars, lightVars>>

(***************************************************************************)
(* custom_components/dlight-hass/__init__.py                               *)
(***************************************************************************)
\* config_flow.py line 39; entry.domain of every entry of the integration.
Domain == "dlight-hass"
OtherDomain == "other_integration"

\* Line 14.
PLATFORMS == <<"light">>

EntryIds == {"e1", "e2", "e3"}

\* entry.data of the entries handed to async_setup_entry: a complete one, one
\* without an IP address, one with an empty device id.
EntryDatas ==
    { [ip_address |-> "10.0.0.5", device_id |-> "d1", name |-> "Kitchen"],
      [ip_address |-> Absent, device_id |-> "d1", name |-> Absent],
      [ip_address |-> "10.0.0.6", device_id |-> "", name |-> Absent] }

EmptyDict == << >>

Keys(d) == DOMAIN d

\* StoreEntryData that assigns a fresh dict to the domain.
StoreEntryData_Clobber(data, domain, entry_id, value) ==
    [k \in Keys(data) \cup {domain} |->
        IF k = domain THEN [e \in {entry_id} |-> value] ELSE data[k]]

\* Line 33: hass.data.setdefault(entry.domain, {})[entry.entry_id] = entry.data
StoreEntryData(data, domain, entry_id, value) ==
    LET old == IF domain \in Keys(data) THEN data[domain] ELSE EmptyDict
        new == [k \in Keys(old) \cup {entry_id} |->
                    IF k = entry_id THEN value ELSE old[k]]
    IN  [k \in Keys(data) \cup {domain} |-> IF k = domain THEN new ELSE data[k]]

\* PopEntryData that keeps the domain's dict when it becomes empty.
PopEntryData_KeepDomain(data, domain, entry_id) ==
    [data EXCEPT ![domain] =
        [k \in Keys(data[domain]) \ {entry_id} |-> data[domain][k]]]

\* Lines 61-63: pop the entry's data, and the domain's dict once it is empty.
PopEntryData(data, domain, entry_id) ==
    LET new == [k \in Keys(data[domain]) \ {entry_id} |-> data[domain][k]]
    IN  IF Keys(new) = {}
        THEN [k \in Keys(data) \ {domain} |-> data[k]]
        ELSE [data EXCEPT ![domain] = new]

\* custom_components/dlight-hass/light.py: what the light platform's
\* async_setup_entry does with the entry. Without an IP address or a device
\* id it returns before anything is created (lines 72-75); otherwise the
\* first refresh either fails or the entity is added (lines 196-200).
light_async_setup_entry(entry, refreshOk) ==
    LET target_ip == Get(entry.data.ip_address)
        device_id == Get(entry.data.device_id)
    IN  IF ~Truthy(target_ip) \/ ~Truthy(device_id) THEN "no_entity"
        ELSE IF ~refreshOk THEN "not_ready"
        ELSE "entity_added"

NoSetupCall ==
    [op |-> "none", entry_id |-> Absent, result |-> Absent, forwards |-> << >>,
     platform |-> Absent, unload_ok |-> Absent, before |-> EmptyDict]

\* __init__.py, lines 16-40. Home Assistant calls it for an entry that
\* is not loaded. forward is what the awaited async_forward_entry_setups
\* does: it returns after running the platform's setup, or it raises.
async_setup_entry ==
    \E e \in EntryIds, forward \in {"done", "raise"}, refreshOk \in BOOLEAN :
        /\ entryState[e] \in {"not_loaded", "setup_error"}
        /\ LET entry == configEntries[e] IN
           /\ hassData' = StoreEntryData(hassData, entry.domain, entry.entry_id, entry.data)
           /\ setupCall' =
                [op |-> "setup", entry_id |-> e,
                 result |-> IF forward = "raise" THEN "raise" ELSE "True",
                 forwards |-> << PLATFORMS >>,
                 platform |-> IF forward = "raise" THEN "not_run"
                              ELSE light_async_setup_entry(entry, refreshOk),
                 unload_ok |-> Absent,
                 before |-> hassData]
           /\ entryState' =
                [entryState EXCEPT ![e] = IF forward = "raise" THEN "setup_error"
                                          ELSE "loaded"]
        /\ UNCHANGED <<configEntries, flowVars, lightVars>>

\* __init__.py, lines 42-65. Home Assistant calls it for a loaded
\* entry. unload_ok is the result of the awaited async_unload_platforms.
async_unload_entry ==
    \E e \in EntryIds, unload_ok \in BOOLEAN :
        /\ entryState[e] = "loaded"
        /\ LET entry == configEntries[e]
               found == /\ entry.domain \in Keys(hassData)
                        /\ entry.entry_id \in Keys(hassData[entry.domain])
           IN
           /\ hassData' =
                IF unload_ok /\ found
                THEN PopEntryData(hassData, entry.domain, entry.entry_id)
                ELSE hassData
           /\ setupCall' =
                [op |-> "unload", entry_id |-> e,
                 result |-> IF unload_ok /\ ~found THEN "raise"
                            ELSE IF unload_ok THEN "True" ELSE "False",
                 forwards |-> << >>,
                 platform |-> Absent,
                 unload_ok |-> IF unload_ok THEN "True" ELSE "False",
                 before |-> hassData]
           /\ entryState' =
                [entryState EXCEPT ![e] = IF unload_ok /\ found THEN "not_loaded"
                                          ELSE "failed_unload"]
        /\ UNCHANGED <<configEntries, flowVars, lightVars>>

(***************************************************************************)
(* The light platform: DLightEntity of custom_components/dlight-hass/      *)
(* light.py and of the earlier src/light.py (rev = "legacy").              *)
(*                                                                         *)
(* An Optional value is a set: {} is None, {v} is the value v.             *)
(***************************************************************************)
NoneV == {}
Some(v) == {v}
The(o) == CHOOSE v \in o : TRUE

\* math.ceil(a / b) for non-negative a and positive b.
CeilDiv(a, b) == (a + b - 1) \div b

Min(a, b) == IF a < b THEN a ELSE b
Max(a, b) == IF a > b THEN a ELSE b

MaxCalls == 2

\* kwargs of the light.turn_on service.
BrightnessArgs == {NoneV, Some(0), Some(128)}
ColorTempArgs == {NoneV, Some(4000)}

\* The lamp when the entity is created.
InitialDevices == [on : BOOLEAN, brightness : {20}, temperature : {3000}]

\* math.ceil((dlight_brightness / 100) * 255)
ToHaBrightness(dlight_brightness) == CeilDiv(dlight_brightness * 255, 100)

\* max(0, min(100, math.ceil((brightness_ha / 255) * 100)))
ToDlightBrightness(brightness_ha) == Max(0, Min(100, CeilDiv(brightness_ha * 100, 255)))

\* coordinator.data after a poll that read the lamp's state.
FullData(dev) ==
    [truthy |-> TRUE, on |-> Some(dev.on), brightness |-> Some(dev.brightness),
     temperature |-> Some(dev.temperature)]

\* coordinator.data after a successful poll that carries no state: only the
\* info fields (component, lines 105-150), or an empty "states" dict
\* (legacy, line 79).
StatelessData(revision) ==
    [truthy |-> revision = "component", on |-> NoneV, brightness |-> NoneV,
     temperature |-> NoneV]

PollData(revision, dev, shape) ==
    IF shape = "full" THEN FullData(dev) ELSE StatelessData(revision)

\* is_on with the coordinator data preferred to the optimistic value.
is_on_DataFirst(opt, data) ==
    IF data.truthy /\ data.on # NoneV THEN data.on ELSE opt.on

\* Lines 295-311.
is_on(opt, data) ==
    IF opt.on # NoneV THEN opt.on
    ELSE IF data.truthy THEN data.on
    ELSE NoneV

\* Lines 313-334.
brightness(opt, data) ==
    IF opt.brightness # NoneV THEN opt.brightness
    ELSE IF data.truthy /\ data.brightness # NoneV
         THEN Some(ToHaBrightness(The(data.brightness)))
    ELSE NoneV

\* Lines 336-353.
color_temp_kelvin(opt, data) ==
    IF opt.color_temp # NoneV THEN opt.color_temp
    ELSE IF data.truthy THEN data.temperature
    ELSE NoneV

\* What async_write_ha_state reads from the entity.
Report(opt, data) ==
    [is_on |-> is_on(opt, data), brightness |-> brightness(opt, data),
     color_temp_kelvin |-> color_temp_kelvin(opt, data)]

\* Lines 497-506.
clear_optimistic_state == [on |-> NoneV, brightness |-> NoneV, color_temp |-> NoneV]

Cmd(name, arg) == [name |-> name, arg |-> arg]

\* What the lamp does with one command.
ApplyCommand(dev, cmd) ==
    CASE cmd.name \in {"turn_on", "set_light_state_on"} -> [dev EXCEPT !.on = TRUE]
      [] cmd.name \in {"turn_off", "set_light_state_off"} -> [dev EXCEPT !.on = FALSE]
      [] cmd.name = "set_brightness" -> [dev EXCEPT !.brightness = The(cmd.arg)]
      [] cmd.name = "set_color_temperature" -> [dev EXCEPT !.temperature = The(cmd.arg)]
      [] OTHER -> dev

RECURSIVE ApplyCommands(_, _, _)
ApplyCommands(dev, cmds, n) ==
    IF n = 0 THEN dev ELSE ApplyCommand(ApplyCommands(dev, cmds, n - 1), cmds[n])

\* The lamp after the first n commands of cmds, those at the positions in
\* lost left out.
RECURSIVE ApplyExcept(_, _, _, _)
ApplyExcept(dev, cmds, n, lost) ==
    IF n = 0 THEN dev
    ELSE LET before == ApplyExcept(dev, cmds, n - 1, lost)
         IN  IF n \in lost THEN before ELSE ApplyCommand(before, cmds[n])

\* Lines 384-422: the commands async_turn_on queues, and whether it hands
\* over to async_turn_off (brightness 0).
TurnOnTasks(brightness_ha, color_temp_k, current_on) ==
    LET dlight_brightness ==
            IF brightness_ha = NoneV THEN NoneV
            ELSE Some(ToDlightBrightness(The(brightness_ha)))
        zero == dlight_brightness # NoneV /\ ~(The(dlight_brightness) > 0)
        queued ==
            (IF dlight_brightness # NoneV /\ ~zero
             THEN << Cmd("set_brightness", dlight_brightness) >> ELSE << >>)
            \o (IF color_temp_k # NoneV
                THEN << Cmd("set_color_temperature", color_temp_k) >> ELSE << >>)
    IN  IF zero THEN [path |-> "off", cmds |-> << Cmd("turn_off", NoneV) >>]
        ELSE IF queued = << >>
        THEN [path |-> "on", cmds |-> << Cmd("turn_on", NoneV) >>]
        ELSE IF current_on # Some(TRUE)
        THEN [path |-> "on", cmds |-> << Cmd("turn_on", NoneV) >> \o queued]
        ELSE [path |-> "on", cmds |-> queued]

\* src/light.py, lines 232-255: the commands the earlier async_turn_on
\* awaits one after the other.
LegacyTurnOnTasks(brightness_ha, color_temp_k) ==
    LET explicit ==
            IF brightness_ha = NoneV /\ color_temp_k = NoneV
            THEN << Cmd("set_light_state_on", NoneV) >> ELSE << >>
        temp ==
            IF color_temp_k # NoneV
            THEN << Cmd("set_color_temperature", color_temp_k) >> ELSE << >>
        dlight_brightness ==
            IF brightness_ha = NoneV THEN NoneV
            ELSE Some(ToDlightBrightness(The(brightness_ha)))
    IN  IF dlight_brightness = NoneV
        THEN [path |-> "on", cmds |-> explicit \o temp]
        ELSE IF The(dlight_brightness) > 0
        THEN [path |-> "on",
              cmds |-> explicit \o temp \o << Cmd("set_brightness", dlight_brightness) >>]
        ELSE [path |-> "off",
              cmds |-> explicit \o temp \o << Cmd("set_light_state_off", NoneV) >>]

\* Lines 375-376: the locals optimistic_brightness and optimistic_color_temp.
TurnOnLocals(brightness_ha, color_temp_k, opt, data) ==
    [brightness |-> IF brightness_ha # NoneV THEN brightness_ha ELSE brightness(opt, data),
     color_temp |-> IF color_temp_k # NoneV THEN color_temp_k
                    ELSE color_temp_kelvin(opt, data)]

\* The optimistic update with the defaults left out.
TurnOnOptimistic_NoDefaults(locals) ==
    [on |-> Some(TRUE), brightness |-> locals.brightness, color_temp |-> locals.color_temp]

\* Lines 436-443: the optimistic update of async_turn_on.
TurnOnOptimistic(locals) ==
    [on |-> Some(TRUE),
     brightness |-> IF locals.brightness = NoneV THEN Some(255) ELSE locals.brightness,
     color_temp |-> IF locals.color_temp = NoneV THEN Some(2600) ELSE locals.color_temp]

\* The optimistic update of async_turn_off with brightness and color kept.
TurnOffOptimistic_Keep(opt) ==
    [on |-> Some(FALSE), brightness |-> opt.brightness, color_temp |-> opt.color_temp]

\* Lines 477-480: the optimistic update of async_turn_off.
TurnOffOptimistic(opt) ==
    [on |-> Some(FALSE), brightness |-> NoneV, color_temp |-> NoneV]

\* The success path with the refresh requested before the state is written.
SuccessEvents_RefreshFirst == <<"request_refresh", "write_ha_state">>

\* Lines 445-449 and 481-485: write the state, then ask for a refresh.
SuccessEvents == <<"write_ha_state", "request_refresh">>

\* Lines 451-461 and 486-495: the state is written, no refresh is asked for.
ErrorEvents == <<"write_ha_state">>

\* _handle_coordinator_update that keeps the optimistic state.
handle_coordinator_update_Keep(opt, data) == opt

\* Lines 509-533: coordinator.data is never None once the entity exists
\* (it is created after the first refresh), so the optimistic state is
\* cleared on every update.
handle_coordinator_update(opt, data) == clear_optimistic_state

NoCallYet ==
    [op |-> "none", pc |-> "idle", brightness |-> NoneV, color_temp |-> NoneV,
     path |-> "none", cmds |-> << >>, locals |-> [brightness |-> NoneV, color_temp |-> NoneV],
     started |-> [is_on |-> NoneV, brightness |-> NoneV, color_temp_kelvin |-> NoneV],
     outcome |-> "none", events |-> << >>,
     written |-> [is_on |-> NoneV, brightness |-> NoneV, color_temp_kelvin |-> NoneV]]

\* No refresh in flight.
NoPoll == [pc |-> "idle", data |-> StatelessData("component"), stale |-> FALSE]

\* async_turn_on up to its first await: the arguments are read, the locals
\* are set from what the entity reports now, the commands are queued.
TurnOnStart ==
    \E brightness_ha \in BrightnessArgs, color_temp_k \in ColorTempArgs :
        /\ svcCall.pc # "awaiting"
        /\ callsLeft > 0
        /\ callsLeft' = callsLeft - 1
        /\ LET tasks == IF rev = "component"
                        THEN TurnOnTasks(brightness_ha, color_temp_k,
                                         is_on(optimistic, coordData))
                        ELSE LegacyTurnOnTasks(brightness_ha, color_temp_k)
           IN  svcCall' = [op |-> "turn_on", pc |-> "awaiting",
                        brightness |-> brightness_ha, color_temp |-> color_temp_k,
                        path |-> tasks.path, cmds |-> tasks.cmds,
                        locals |-> TurnOnLocals(brightness_ha, color_temp_k,
                                                optimistic, coordData),
                        started |-> haState,
                        outcome |-> "none", events |-> << >>,
                        written |-> NoCallYet.written]
        /\ pending' = NoneV
        /\ UNCHANGED <<device, coordData, optimistic, haState, poll, flowVars, setupVars>>

\* async_turn_off up to its await.
TurnOffStart ==
    /\ svcCall.pc # "awaiting"
    /\ callsLeft > 0
    /\ callsLeft' = callsLeft - 1
    /\ svcCall' = [op |-> "turn_off", pc |-> "awaiting",
                brightness |-> NoneV, color_temp |-> NoneV,
                path |-> "off",
                cmds |-> << IF rev = "component" THEN Cmd("turn_off", NoneV)
                            ELSE Cmd("set_light_state_off", NoneV) >>,
                locals |-> NoCallYet.locals,
                started |-> haState,
                outcome |-> "none", events |-> << >>,
                written |-> NoCallYet.written]
    /\ pending' = NoneV
    /\ UNCHANGED <<device, coordData, optimistic, haState, poll, flowVars, setupVars>>

\* The awaited commands return: the lamp has taken them, the optimistic state
\* is set, the state is written and a refresh is requested. A refresh in
\* flight has read the lamp before the commands.
CommandsSucceed ==
    /\ svcCall.pc = "awaiting"
    /\ device' = ApplyCommands(device, svcCall.cmds, Len(svcCall.cmds))
    /\ optimistic' = IF svcCall.path = "on" THEN TurnOnOptimistic(svcCall.locals)
                     ELSE TurnOffOptimistic(optimistic)
    /\ haState' = Report(optimistic', coordData)
    /\ svcCall' = [svcCall EXCEPT !.pc = "done", !.outcome = "ok",
                            !.events = SuccessEvents, !.written = haState']
    /\ pending' = Some(haState')
    /\ poll' = IF poll.pc = "inflight" THEN [poll EXCEPT !.stale = TRUE] ELSE poll
    /\ UNCHANGED <<coordData, callsLeft, flowVars, setupVars>>

\* An awaited command raises (a DLightError or anything else): the commands
\* in lost have not reached the lamp. asyncio.gather(return_exceptions=True)
\* (line 425) runs every queued command, so any of them may be lost; a
\* command awaited on its own ends the handler, so the later ones are lost
\* with it. The optimistic state is cleared and the state is written.
CommandsFail ==
    \E exc \in {"DLightError", "RuntimeError"},
       lost \in (SUBSET (1..Len(svcCall.cmds))) \ {{}} :
        /\ svcCall.pc = "awaiting"
        /\ (rev = "component" /\ svcCall.path = "on")
              \/ \A i \in lost : \A j \in i..Len(svcCall.cmds) : j \in lost
        /\ device' = ApplyExcept(device, svcCall.cmds, Len(svcCall.cmds), lost)
        /\ optimistic' = clear_optimistic_state
        /\ haState' = Report(optimistic', coordData)
        /\ svcCall' = [svcCall EXCEPT !.pc = "done", !.outcome = exc,
                                !.events = ErrorEvents, !.written = haState']
        /\ pending' = NoneV
        /\ poll' = IF poll.pc = "inflight" /\ lost # 1..Len(svcCall.cmds)
                   THEN [poll EXCEPT !.stale = TRUE] ELSE poll
        /\ UNCHANGED <<coordData, callsLeft, flowVars, setupVars>>

\* async_update_data reads the lamp (component lines 93-100, legacy line 72).
PollQuery ==
    \E shape \in {"full", "stateless"} :
        /\ poll.pc = "idle"
        /\ poll' = [pc |-> "inflight", data |-> PollData(rev, device, shape),
                    stale |-> FALSE]
        /\ UNCHANGED <<device, coordData, optimistic, haState, svcCall, pending, callsLeft,
                       flowVars, setupVars>>

\* The refresh ends with data: the coordinator stores it and calls
\* _handle_coordinator_update, which writes the state.
PollSucceed ==
    /\ poll.pc = "inflight"
    /\ coordData' = poll.data
    /\ optimistic' = handle_coordinator_update(optimistic, coordData')
    /\ haState' = Report(optimistic', coordData')
    /\ pending' = IF poll.stale THEN pending ELSE NoneV
    /\ poll' = NoPoll
    /\ UNCHANGED <<device, svcCall, callsLeft, flowVars, setupVars>>

\* The refresh ends with UpdateFailed: coordinator.data stays.
PollFail ==
    /\ poll.pc = "inflight"
    /\ poll' = NoPoll
    /\ UNCHANGED <<device, coordData, optimistic, haState, svcCall, pending, callsLeft,
                   flowVars, setupVars>>

\* The entity right after async_add_entities: the first refresh has
\* succeeded, nothing is optimistic.
LightIdle ==
    /\ device = [on |-> FALSE, brightness |-> 20, temperature |-> 3000]
    /\ coordData = FullData(device)
    /\ optimistic = clear_optimistic_state
    /\ haState = Report(optimistic, coordData)
    /\ svcCall = NoCallYet
    /\ poll = NoPoll
    /\ pending = NoneV
    /\ callsLeft = 0

(***************************************************************************)
(* Specifications.                                                         *)
(***************************************************************************)
NoResult ==
    [type |-> "none", step_id |-> Absent, errors |-> Absent,
     title |-> Absent, data |-> NoUserInput, reason |-> Absent]

\* What other integrations keep in hass.data.
OtherData == [k \in {"x1"} |-> [ip_address |-> Absent, device_id |-> Absent, name |-> Absent]]

InitialHassData == [k \in {OtherDomain} |-> OtherData]

FlowIdle ==
    /\ entries = << >>
    /\ flowCall = NoCall
    /\ flowResult = NoResult

SetupIdle ==
    /\ hassData = InitialHassData
    /\ entryState = [e \in EntryIds |-> "not_loaded"]
    /\ setupCall = NoSetupCall

InitFlow ==
    /\ rev \in {"component", "legacy"}
    /\ importSuccess \in BOOLEAN
    /\ rev = "legacy" => importSuccess
    /\ FlowIdle
    /\ SetupIdle
    /\ LightIdle
    /\ configEntries =
         [e \in EntryIds |->
            [entry_id |-> e, domain |-> Domain, title |-> "Kitchen",
             data |-> [ip_address |-> "10.0.0.5", device_id |-> "d1", name |-> "Kitchen"]]]

NextFlow == StepUser \/ LegacyStepUser

SpecFlow == InitFlow /\ [][NextFlow]_vars

InitSetup ==
    /\ rev = "component"
    /\ importSuccess = TRUE
    /\ FlowIdle
    /\ SetupIdle
    /\ LightIdle
    /\ \E datas \in [EntryIds -> EntryDatas] :
         configEntries =
            [e \in EntryIds |->
               [entry_id |-> e, domain |-> Domain, title |-> "",
                data |-> datas[e]]]

NextSetup == async_setup_entry \/ async_unload_entry

SpecSetup == InitSetup /\ [][NextSetup]_vars

InitLight ==
    /\ rev \in {"component", "legacy"}
    /\ importSuccess = TRUE
    /\ FlowIdle
    /\ SetupIdle
    /\ configEntries =
         [e \in EntryIds |->
            [entry_id |-> e, domain |-> Domain, title |-> "Kitchen",
             data |-> [ip_address |-> "10.0.0.5", device_id |-> "d1", name |-> "Kitchen"]]]
    /\ device \in InitialDevices
    /\ \E shape \in {"full", "stateless"} : coordData = PollData(rev, device, shape)
    /\ optimistic = clear_optimistic_state
    /\ haState = Report(optimistic, coordData)
    /\ svcCall = NoCallYet
    /\ poll = NoPoll
    /\ pending = NoneV
    /\ callsLeft = MaxCalls

NextLight ==
    \/ TurnOnStart
    \/ TurnOffStart
    \/ CommandsSucceed
    \/ CommandsFail
    \/ PollQuery
    \/ PollSucceed
    \/ PollFail

SpecLight == InitLight /\ [][NextLight]_vars

\* The awaited commands return, the coordinator keeps polling, and polls
\* keep succeeding.
SpecLightLive ==
    /\ InitLight
    /\ [][NextLight]_vars
    /\ WF_vars(CommandsSucceed \/ CommandsFail)
    /\ WF_vars(PollQuery)
    /\ SF_vars(PollSucceed)

(***************************************************************************)
(* Properties of the config flow, checked under SpecFlow.                  *)
(***************************************************************************)
Validated == flowCall.validated # NoValidate

\* The device-info query returned a mapping whose status is SUCCESS.
QuerySucceeded ==
    /\ flowCall.resp.kind = "return"
    /\ flowCall.resp.info.type = "dict"
    /\ flowCall.resp.info.status = "SUCCESS"

NonEmpty(v) == v # None /\ v # Absent /\ v # ""

Submitted == flowCall.started /\ flowCall.user_input # NoUserInput

\* C1: validate_input returns a title only when the device-info query
\* returned a mapping whose status is SUCCESS; in every other outcome it
\* raises CannotConnect, and no other exception type leaves it.
C1_ValidateInputRaisesOnlyCannotConnect ==
    Validated =>
        /\ flowCall.validated.kind = "return" => QuerySucceeded
        /\ ~QuerySucceeded =>
              /\ flowCall.validated.kind = "raise"
              /\ flowCall.validated.exc = "CannotConnect"
        /\ flowCall.validated.kind = "raise" => flowCall.validated.exc = "CannotConnect"
        /\ flowCall.validated.kind \in {"return", "raise"}

\* An exception that is neither a timeout nor a library error was raised by
\* the query and left validate_input as CannotConnect.
C1_Witness ==
    /\ Validated
    /\ flowCall.resp.kind = "raise"
    /\ flowCall.resp.exc = "RuntimeError"
    /\ flowCall.validated.exc = "CannotConnect"

\* C2: async_step_user creates a config entry only after validate_input
\* returned for the submitted input, with the input as data and the returned
\* title; with user_input None it shows the 'user' form with empty errors,
\* after CannotConnect it shows the form with base = 'cannot_connect', and
\* in both of those cases the entries are as they were.
C2_EntryOnlyAfterValidation ==
    /\ flowResult.type = "create_entry" =>
          /\ Submitted
          /\ flowCall.validated.kind = "return"
          /\ flowResult.data = flowCall.user_input
          /\ flowResult.title = flowCall.validated.title
          /\ entries = Append(flowCall.before,
                              [unique_id |-> flowCall.unique_id,
                               title |-> flowCall.validated.title,
                               data |-> flowCall.user_input])
    /\ Len(entries) > Len(flowCall.before) => flowResult.type = "create_entry"
    /\ (flowCall.started /\ flowCall.user_input = NoUserInput) =>
          /\ flowResult.type = "form"
          /\ flowResult.step_id = "user"
          /\ flowResult.errors = Absent
          /\ entries = flowCall.before
    /\ (Validated /\ flowCall.validated.exc = "CannotConnect") =>
          /\ flowResult.type = "form"
          /\ flowResult.step_id = "user"
          /\ flowResult.errors = "cannot_connect"
          /\ entries = flowCall.before

\* An entry was created for an input whose name is empty, so that the title
\* is not the submitted name.
C2_Witness ==
    /\ flowResult.type = "create_entry"
    /\ flowCall.user_input.name = ""
    /\ flowResult.title = "dLight-M"
    /\ Len(entries) = 2

\* C3: the unique id is 'dlight_' + device_id; a submission whose unique id
\* is already configured aborts before validate_input is called, without a
\* device query and without a new entry; so there is never more than one
\* entry per device_id.
C3_OneEntryPerDevice ==
    /\ Submitted => flowCall.unique_id = "dlight_" \o flowCall.user_input.device_id
    /\ (Submitted /\ \E i \in 1..Len(flowCall.before) :
            flowCall.before[i].unique_id = "dlight_" \o flowCall.user_input.device_id) =>
          /\ flowResult.type = "abort"
          /\ flowCall.validated = NoValidate
          /\ flowCall.resp = NoResponse
          /\ Len(entries) = Len(flowCall.before)
    /\ \A i, j \in 1..Len(entries) :
          entries[i].data.device_id = entries[j].data.device_id => i = j

\* A second submission for a configured device was aborted.
C3_Witness ==
    /\ flowResult.type = "abort"
    /\ Len(entries) = 2
    /\ \E i \in 1..Len(entries) : entries[i].data.device_id = flowCall.user_input.device_id

\* C4: an exception that is neither a timeout nor a dlightclient error,
\* raised while the input is validated, re-shows the form with
\* base = 'unknown'.
C4_UnforeseenIsUnknown ==
    (Validated /\ flowCall.resp.kind = "raise" /\ flowCall.resp.exc = "RuntimeError") =>
        /\ flowResult.type = "form"
        /\ flowResult.errors = "unknown"

\* The name, else the model, else the device id.
PreferredTitle ==
    LET name == flowCall.user_input.name
        model == flowCall.resp.info.deviceModel
    IN  IF NonEmpty(name) THEN name
        ELSE IF NonEmpty(model) THEN model
        ELSE flowCall.user_input.device_id

\* C5: in custom_components/dlight-hass/config_flow.py the title is the
\* name if non-empty, else the reported deviceModel if non-empty, else the
\* device id; so it is non-empty whenever the device id is.
C5_TitleFallback ==
    (rev = "component" /\ flowResult.type = "create_entry") =>
        /\ flowResult.title = PreferredTitle
        /\ entries[Len(entries)].title = PreferredTitle
        /\ flowCall.user_input.device_id # "" => NonEmpty(flowResult.title)

\* No name was given, the device reported deviceModel null, and the title is
\* the device id.
C5_Witness ==
    /\ rev = "component"
    /\ flowResult.type = "create_entry"
    /\ flowCall.user_input.name = Absent
    /\ flowCall.resp.info.deviceModel = None
    /\ flowResult.title = "d1"

\* C6: in src/config_flow.py the title is the name, else the model, else
\* the device id; with no name and deviceModel null or empty it is the
\* device id.
C6_LegacyTitleFallback ==
    (rev = "legacy" /\ flowResult.type = "create_entry") =>
        flowResult.title = PreferredTitle

(***************************************************************************)
(* Properties of the entry point, checked under SpecSetup.                 *)
(***************************************************************************)
\* The entries the domain's dict holds (none without the domain key).
StoredEntries(data) == IF Domain \in Keys(data) THEN Keys(data[Domain]) ELSE {}

\* C7: after async_setup_entry returns for an entry,
\* hass.data[entry.domain][entry.entry_id] is the entry's data, what is
\* stored for every other entry is unchanged, and the light platform has
\* been forwarded exactly once.
C7_SetupStoresEntryData ==
    (setupCall.op = "setup" /\ setupCall.result = "True") =>
        LET e == setupCall.entry_id
            b == setupCall.before
        IN  /\ Keys(hassData) = Keys(b) \cup {Domain}
            /\ \A k \in Keys(b) \ {Domain} : hassData[k] = b[k]
            /\ StoredEntries(hassData) = StoredEntries(b) \cup {e}
            /\ hassData[Domain][e] = configEntries[e].data
            /\ \A o \in StoredEntries(b) \ {e} : hassData[Domain][o] = b[Domain][o]
            /\ setupCall.forwards = << <<"light">> >>

\* A setup returned while another entry's data was already stored.
C7_Witness ==
    /\ setupCall.op = "setup"
    /\ setupCall.result = "True"
    /\ StoredEntries(setupCall.before) \ {setupCall.entry_id} # {}

\* C8: async_setup_entry returns False when the light platform did not set
\* up: forwarding failed, or the platform added no entity.
C8_SetupReportsFailure ==
    (setupCall.op = "setup" /\ setupCall.platform # "entity_added") =>
        setupCall.result = "False"

\* C9: async_unload_entry returns the result of unloading the platforms; on
\* True the entry's data is removed, and the domain key with it when no
\* entry remains; on False hass.data is unchanged.
C9_UnloadRemovesEntryData ==
    setupCall.op = "unload" =>
        LET e == setupCall.entry_id
            b == setupCall.before
        IN  /\ setupCall.result = setupCall.unload_ok
            /\ setupCall.unload_ok = "True" =>
                  /\ StoredEntries(hassData) = StoredEntries(b) \ {e}
                  /\ \A o \in StoredEntries(hassData) : hassData[Domain][o] = b[Domain][o]
                  /\ Domain \in Keys(hassData) <=> StoredEntries(b) \ {e} # {}
                  /\ Keys(hassData) \ {Domain} = Keys(b) \ {Domain}
                  /\ \A k \in Keys(b) \ {Domain} : hassData[k] = b[k]
            /\ setupCall.unload_ok = "False" => hassData = b

\* The last stored entry was unloaded and the domain key went with it.
C9_Witness ==
    /\ setupCall.op = "unload"
    /\ setupCall.unload_ok = "True"
    /\ setupCall.entry_id \in StoredEntries(setupCall.before)
    /\ Domain \notin Keys(hassData)

\* C10: the keys of hass.data[domain] are exactly the entries that were set
\* up and not yet unloaded; the domain key is never mapped to an empty dict;
\* and setting an entry up and then unloading it restores hass.data.
C10_DataMirrorsLoadedEntries ==
    /\ StoredEntries(hassData) =
          {e \in EntryIds : entryState[e] \in {"loaded", "failed_unload"}}
    /\ Domain \in Keys(hassData) => Keys(hassData[Domain]) # {}
    /\ \A e \in EntryIds :
          entryState[e] \in {"not_loaded", "setup_error"} =>
              PopEntryData(StoreEntryData(hassData, Domain, e, configEntries[e].data),
                           Domain, e) = hassData

(***************************************************************************)
(* Properties of the light entity, checked under SpecLight and, for the    *)
(* liveness of the reconciliation, under SpecLightLive.                    *)
(***************************************************************************)
\* C11: is_on, brightness and color_temp_kelvin are the optimistic value
\* whenever it is not None, whatever the coordinator data; otherwise the
\* value of the coordinator data ('on', 'brightness' scaled by 255/100 and
\* rounded up, the color temperature); and None when neither is there.
C11_OptimisticFirst ==
    /\ haState.is_on =
          IF optimistic.on # NoneV THEN optimistic.on
          ELSE IF coordData.truthy /\ coordData.on # NoneV THEN coordData.on
          ELSE NoneV
    /\ haState.brightness =
          IF optimistic.brightness # NoneV THEN optimistic.brightness
          ELSE IF coordData.truthy /\ coordData.brightness # NoneV
               THEN {n \in 0..255 :
                        /\ n * 100 >= The(coordData.brightness) * 255
                        /\ (n - 1) * 100 < The(coordData.brightness) * 255}
          ELSE NoneV
    /\ haState.color_temp_kelvin =
          IF optimistic.color_temp # NoneV THEN optimistic.color_temp
          ELSE IF coordData.truthy /\ coordData.temperature # NoneV
               THEN coordData.temperature
          ELSE NoneV

\* The optimistic on-state differs from what the last poll read, and the
\* brightness comes from the poll, scaled.
C11_Witness ==
    /\ optimistic.on = Some(FALSE)
    /\ coordData.truthy
    /\ coordData.on = Some(TRUE)
    /\ haState.is_on = Some(FALSE)
    /\ optimistic.brightness = NoneV
    /\ coordData.brightness = Some(51)
    /\ haState.brightness = Some(131)

\* A turn_on call has returned without an error, and the brightness it was
\* given, if any, converts to a lamp brightness above 0.
TurnedOn ==
    /\ svcCall.op = "turn_on"
    /\ svcCall.pc = "done"
    /\ svcCall.outcome = "ok"
    /\ svcCall.brightness # NoneV => The(svcCall.brightness) * 100 > 0

\* C12: after a successful async_turn_on(brightness=b, color_temp_kelvin=k)
\* with b converting to a lamp brightness above 0, the state written by the
\* call has is_on = True, brightness = b and color temperature = k; an
\* attribute that was not given has the value the entity reported when the
\* call started, or 255 (brightness) / 2600 K (color temperature) when that
\* value was None; the state is written before the refresh is requested.
C12_TurnOnOptimistic ==
    TurnedOn =>
        /\ svcCall.written.is_on = Some(TRUE)
        /\ svcCall.written.brightness =
              IF svcCall.brightness # NoneV THEN svcCall.brightness
              ELSE IF svcCall.started.brightness # NoneV THEN svcCall.started.brightness
              ELSE Some(255)
        /\ svcCall.written.color_temp_kelvin =
              IF svcCall.color_temp # NoneV THEN svcCall.color_temp
              ELSE IF svcCall.started.color_temp_kelvin # NoneV
                   THEN svcCall.started.color_temp_kelvin
              ELSE Some(2600)
        /\ svcCall.events = <<"write_ha_state", "request_refresh">>

\* A turn_on with a color temperature and no brightness, on an entity that
\* reported no brightness and is_on = False: the default 255 is written and
\* no poll has come in between.
C12_Witness ==
    /\ TurnedOn
    /\ svcCall.brightness = NoneV
    /\ svcCall.color_temp = Some(4000)
    /\ svcCall.started.brightness = NoneV
    /\ svcCall.started.is_on # Some(TRUE)
    /\ svcCall.written.brightness = Some(255)
    /\ svcCall.written.color_temp_kelvin = Some(4000)
    /\ haState = svcCall.written
    /\ coordData.brightness = NoneV

\* The commands of a call that switch the lamp off.
TurnOffCommands(cmds) ==
    {i \in 1..Len(cmds) : cmds[i].name \in {"turn_off", "set_light_state_off"}}

\* The step in which async_turn_off, called as the service or by
\* async_turn_on for brightness 0, returns without an error.
TurnOffReturns ==
    /\ svcCall.pc = "awaiting"
    /\ svcCall.path = "off"
    /\ svcCall'.pc = "done"
    /\ svcCall'.outcome = "ok"

\* C13: when async_turn_off returns without an error the entity reports
\* is_on = False, the optimistic brightness and color temperature are None,
\* exactly one turn-off command has been sent to the lamp, and the refresh
\* is requested after the state has been written.
C13_TurnOffOptimistic ==
    [][TurnOffReturns =>
          /\ haState'.is_on = Some(FALSE)
          /\ svcCall'.written = haState'
          /\ optimistic'.on = Some(FALSE)
          /\ optimistic'.brightness = NoneV
          /\ optimistic'.color_temp = NoneV
          /\ Cardinality(TurnOffCommands(svcCall'.cmds)) = 1
          /\ ~device'.on
          /\ svcCall'.events = <<"write_ha_state", "request_refresh">>]_vars

\* A turn_off service call on an entity that reported on, with an
\* optimistic brightness from an earlier turn_on, has returned.
C13_Witness ==
    /\ svcCall.op = "turn_off"
    /\ svcCall.pc = "done"
    /\ svcCall.outcome = "ok"
    /\ svcCall.started.is_on = Some(TRUE)
    /\ svcCall.started.brightness = Some(128)
    /\ svcCall.written.is_on = Some(FALSE)
    /\ svcCall.written.brightness # Some(128)
    /\ haState = svcCall.written
    /\ optimistic = [on |-> Some(FALSE), brightness |-> NoneV, color_temp |-> NoneV]

\* No optimistic field is set, and the entity reports what the latest
\* successful poll read: 'on', the brightness scaled by 255/100 and rounded
\* up, and the color temperature.
Reconciled ==
    /\ optimistic.on = NoneV
    /\ optimistic.brightness = NoneV
    /\ optimistic.color_temp = NoneV
    /\ haState.is_on = coordData.on
    /\ haState.brightness =
          IF coordData.brightness = NoneV THEN NoneV
          ELSE {n \in 0..255 :
                   /\ n * 100 >= The(coordData.brightness) * 255
                   /\ (n - 1) * 100 < The(coordData.brightness) * 255}
    /\ haState.color_temp_kelvin = coordData.temperature

\* C14: once no further turn_on / turn_off call is made and polls keep
\* succeeding, eventually every optimistic field is None and is_on,
\* brightness and color temperature are those of the latest poll, and this
\* stays so.
C14_ReconciliationLiveness == <>[]Reconciled

\* Every call has been made, the last one set an optimistic state, and a
\* later poll has replaced that state by what it read from the lamp.
C14_Witness ==
    /\ callsLeft = 0
    /\ svcCall.pc = "done"
    /\ svcCall.outcome = "ok"
    /\ svcCall.written.brightness = Some(128)
    /\ poll.pc = "idle"
    /\ Reconciled
    /\ coordData.brightness = Some(51)
    /\ haState.brightness = Some(131)
    /\ haState.is_on = Some(TRUE)

\* C15: from the moment a successful turn_on or turn_off has written its
\* optimistic state, the entity reports that state until a coordinator
\* update whose query of the lamp came after the command; a poll that read
\* the lamp before the command and ends after it does not bring the
\* pre-command state back.
C15_NoStaleRevert ==
    pending # NoneV => haState = The(pending)

====
